---- MODULE Spec2Model ----
(***************************************************************************)
(* A model of src/src/form.ts: FormState and ChildFormState, the           *)
(* hierarchical form state container.  Every public call is one atomic     *)
(* action (the code is synchronous and single-threaded); the nested calls  *)
(* a handler makes (downward and upward propagation, observer fan-out,     *)
(* validation) are part of that action: Run threads a "world" record       *)
(* through the calls in the order the code makes them.                     *)
(* SpecSteps makes the same calls one nested call at a time, with the      *)
(* pending calls in the variable stack, to state termination.  Observers   *)
(* are kept per node in listeners and anyListeners, with counter the next  *)
(* subscription id.                                                        *)
(*                                                                         *)
(* JavaScript values are records [t, v, m]:                                *)
(*   t = "u"  undefined                                                    *)
(*   t = "s"  a scalar (number/string), v its value                        *)
(*   t = "o"  a plain object, m a function from its keys to values         *)
(*   t = "a"  an array, m a function from its indices to values            *)
(* Keys are small integers for both objects and arrays; Object.keys lists  *)
(* integer-like keys in ascending order, which is the order KeysOf uses.   *)
(* Composite inputs are fresh objects, so === between two composites is    *)
(* false; nested composites are only ever replaced, never mutated in       *)
(* place, so sharing them between nodes is not observable and values are   *)
(* compared by value.                                                      *)
(***************************************************************************)
EXTENDS Integers, Sequences, FiniteSets, TLC

VARIABLES exists, values, defaultValues, dirtyMap, errorMap, state,
          validator, isArr, log, call, listeners, anyListeners, counter,
          stack

vars == <<exists, values, defaultValues, dirtyMap, errorMap, state,
          validator, isArr, log, call, listeners, anyListeners, counter,
          stack>>

\* Bound of the model: the scalars a field may hold are 1..MaxScalar.
MaxScalar == 2
Scalars == 1..MaxScalar

\* Bound of the model: a node hands out at most MaxIds subscription ids.
MaxIds == 3

\* Bound of the model: the depth of the stack of pending calls.
MaxStack == 24

\* The field names of a form (the indices of an array-valued one).
Keys == {0, 1}
MaxKeys == Cardinality(Keys)

----------------------------------------------------------------------------
\* JavaScript values

Undef == [t |-> "u", v |-> 0, m |-> <<>>]
Sc(n) == [t |-> "s", v |-> n, m |-> <<>>]
Obj(f) == [t |-> "o", v |-> 0, m |-> f]
Arr(f) == [t |-> "a", v |-> 0, m |-> f]
EmptyObj == Obj(<<>>)

\* typeof value === "object"
IsObject(x) == x.t \in {"o", "a"}

\* container[key]
Get(c, k) == IF k \in DOMAIN c.m THEN c.m[k] ELSE Undef

\* Object.keys(container), ascending
KeysOf(c) == SelectSeq([i \in 1..(MaxKeys + 1) |-> i - 1], LAMBDA k : k \in DOMAIN c.m)

\* Array.length
ArrLen(c) == Cardinality(DOMAIN c.m)

\* An array without holes: its indices are 0..length-1.
Dense(c) == c.t = "a" => DOMAIN c.m = 0..(ArrLen(c) - 1)

\* map[key] = value
Assign(c, k, x) ==
    [c EXCEPT !.m = [j \in (DOMAIN c.m) \cup {k} |-> IF j = k THEN x ELSE c.m[j]]]

\* map.splice(key, 1) on an array, delete map[key] on an object
Remove(c, k) ==
    IF k \notin DOMAIN c.m THEN c
    ELSE IF c.t = "a"
         THEN [c EXCEPT !.m = [j \in 0..(ArrLen(c) - 2) |->
                                  IF j < k THEN c.m[j] ELSE c.m[j + 1]]]
         ELSE [c EXCEPT !.m = [j \in (DOMAIN c.m) \ {k} |-> c.m[j]]]

\* memberCopy: a shallow copy, the same value
memberCopy(c) == c

\* a === b where at most the stored side may be a composite and composite
\* arguments are fresh objects
StrictEq(a, b) == a = b /\ ~IsObject(a)

----------------------------------------------------------------------------
\* The tree: node 0 is the root; node 1 is bound to key 0 of node 0, node 2
\* to key 0 of node 1, node 3 to key 1 of node 0.

NoNode == 0 - 1
Nodes == 0..3
ParentOf(n) == <<NoNode, 0, 1, 0>>[n + 1]
NameOf(n) == <<0, 0, 0, 1>>[n + 1]

\* this.childMap[key]
ChildAt(w, n, k) ==
    IF \E c \in Nodes : w.exists[c] /\ ParentOf(c) = n /\ NameOf(c) = k
    THEN CHOOSE c \in Nodes : w.exists[c] /\ ParentOf(c) = n /\ NameOf(c) = k
    ELSE NoNode

\* get dirty()
Dirty(w, n) == \E k \in DOMAIN w.dirtyMap[n] : w.dirtyMap[n][k]

\* get error(): some entry is truthy (only truthy entries are ever stored)
HasError(w, n) == DOMAIN w.errorMap[n].m # {}

MapSet(f, k, x) == [j \in (DOMAIN f) \cup {k} |-> IF j = k THEN x ELSE f[j]]

\* The record of what the current call did: observer fan-outs, validator
\* runs, nested setValues calls and upward propagations, in order; id is the
\* subscription id of an invoked callback, NoNode in every other entry.
EvId(w, e, n, k, b, id) ==
    [w EXCEPT !.log =
        Append(@, [e |-> e, n |-> n, k |-> k, b |-> b, id |-> id])]

Ev(w, e, n, k, b) == EvId(w, e, n, k, b, NoNode)

\* An uncaught TypeError ended the call.
Thrown(w) == w.log # <<>> /\ w.log[Len(w.log)].e = "TypeError"

\* Object.keys of a listener map: ids are integer-like, listed ascending
IdsOf(reg) == SelectSeq([i \in 1..MaxIds |-> i - 1], LAMBDA id : id \in DOMAIN reg)

\* Observer callbacks: "note" only takes note of being invoked; "drop" of an
\* id calls ignore(key, id) for the key it is registered under, ignoreAny(id)
\* when it is registered with listenAny.
Callbacks ==
    {[kind |-> "note", id |-> NoNode]}
    \cup {[kind |-> "drop", id |-> i] : i \in 0..(MaxIds - 1)}

\* this.listeners[key] of node n, {} when never set
SettersOf(w, n, key) ==
    IF key \in DOMAIN w.listeners[n] THEN w.listeners[n][key] ELSE <<>>

\* The listener map an invocation reads: anyListeners for key NoNode
RegistryOf(w, n, key) ==
    IF key = NoNode THEN w.anyListeners[n] ELSE SettersOf(w, n, key)

----------------------------------------------------------------------------
\* Validators: external pure functions from values to an error map.
\*   "noTwo"    reports "e" for every scalar field equal to 2 and a nested
\*              map for every composite field that has findings

RECURSIVE NoTwo(_)
NoTwo(c) ==
    LET bad == {k \in DOMAIN c.m :
                   \/ c.m[k] = Sc(2)
                   \/ IsObject(c.m[k]) /\ NoTwo(c.m[k]) # EmptyObj}
    IN Obj([k \in bad |-> IF IsObject(c.m[k]) THEN NoTwo(c.m[k]) ELSE Sc(1)])

Validators == {"none", "noTwo"}

RunValidator(name, c) == IF name = "noTwo" THEN NoTwo(c) ELSE EmptyObj

\* mostKeys = a.length > b.length ? a : b
MostKeys(a, b) == IF Len(a) > Len(b) THEN a ELSE b

----------------------------------------------------------------------------
\* The mutation engine.  A call in progress is a stack of pending calls; Run
\* takes the first, lets the operator named after the called function do what
\* the function does itself and list the calls the function makes, in the
\* order it makes them, and goes on with those calls before the rest.  No
\* function reads state between its calls except where a pending call of its
\* own (ChildDirty) stands for the read.

CallSetValueInternal(n, key, value, dirty, doValidate, isDefault, notifyChild, notifyParent, fireAny) ==
    [op |-> "setValueInternal", n |-> n, key |-> key, value |-> value,
     dirty |-> dirty, validate |-> doValidate, isDefault |-> isDefault,
     notifyChild |-> notifyChild, notifyParent |-> notifyParent,
     fireAny |-> fireAny]

CallSetValue(n, key, value, doValidate, isDefault, notifyChild, notifyParent, fireAny) ==
    [op |-> "setValue", n |-> n, key |-> key, value |-> value,
     validate |-> doValidate, isDefault |-> isDefault,
     notifyChild |-> notifyChild, notifyParent |-> notifyParent,
     fireAny |-> fireAny]

CallSetValues(n, vals, isDefault, notifyChild, notifyParent) ==
    [op |-> "setValues", n |-> n, values |-> vals, isDefault |-> isDefault,
     notifyChild |-> notifyChild, notifyParent |-> notifyParent]

CallValidate(n) == [op |-> "validate", n |-> n]

CallSetError(n, key, error, notifyChild, notifyParent, fireAny) ==
    [op |-> "setError", n |-> n, key |-> key, error |-> error,
     notifyChild |-> notifyChild, notifyParent |-> notifyParent,
     fireAny |-> fireAny]

CallSetErrors(n, errors, notifyChild, notifyParent) ==
    [op |-> "setErrors", n |-> n, errors |-> errors,
     notifyChild |-> notifyChild, notifyParent |-> notifyParent]

CallSetState(n, st, notifyChild, notifyParent) ==
    [op |-> "setState", n |-> n, state |-> st, notifyChild |-> notifyChild,
     notifyParent |-> notifyParent]

CallUpdateParentValues(n, isDefault) ==
    [op |-> "updateParentValues", n |-> n, isDefault |-> isDefault]

CallUpdateParentErrors(n) == [op |-> "updateParentErrors", n |-> n]

CallUpdateParentState(n) == [op |-> "updateParentState", n |-> n]

CallFireListeners(n, key, b) ==
    [op |-> "fireListeners", n |-> n, key |-> key, b |-> b]

CallFireAnyListeners(n, b) == [op |-> "fireAnyListeners", n |-> n, b |-> b]

CallListen(n, key, cb) == [op |-> "listen", n |-> n, key |-> key, cb |-> cb]

CallListenAny(n, cb) == [op |-> "listenAny", n |-> n, cb |-> cb]

CallIgnore(n, key, id) == [op |-> "ignore", n |-> n, key |-> key, id |-> id]

CallIgnoreAny(n, id) == [op |-> "ignoreAny", n |-> n, id |-> id]

\* a[e](setValuesWasUsed) inside the forEach of a fan-out
Invoke(n, key, id, b) ==
    [op |-> "invoke", n |-> n, key |-> key, id |-> id, b |-> b]

\* line 115: this.dirtyMap[key] = child.dirty
ChildDirty(n, key, c) == [op |-> "childDirty", n |-> n, key |-> key, c |-> c]

Done(w, calls) == [w |-> w, calls |-> calls]

When(cond, calls) == IF cond THEN calls ELSE <<>>

\* The side being written
Side(w, n, isDefault) == IF isDefault THEN w.defaultValues[n] ELSE w.values[n]

\* lines 101-107: write or remove the key on the chosen side
WriteSide(w, n, key, value, isDefault) ==
    IF isDefault
    THEN [w EXCEPT !.defaultValues[n] =
             IF value = Undef THEN Remove(@, key) ELSE Assign(@, key, value)]
    ELSE [w EXCEPT !.values[n] =
             IF value = Undef THEN Remove(@, key) ELSE Assign(@, key, value)]

\* f.dirty is <<>> for undefined, <<b>> for a boolean
setValueInternal(w, f) ==
    LET w1 == WriteSide(w, f.n, f.key, f.value, f.isDefault)
        c  == ChildAt(w, f.n, f.key)
    IN Done(IF f.dirty # <<>>
            THEN [w1 EXCEPT !.dirtyMap[f.n] = MapSet(@, f.key, f.dirty[1])]
            ELSE w1,
            When(f.notifyChild /\ f.value # Undef /\ c # NoNode,
                 <<CallSetValues(c, f.value, f.isDefault, TRUE, FALSE),
                   ChildDirty(f.n, f.key, c)>>)
            \o <<CallFireListeners(f.n, f.key, FALSE)>>
            \o When(f.fireAny /\ f.notifyParent,
                    <<CallUpdateParentValues(f.n, f.isDefault)>>)
            \o When(f.fireAny, <<CallFireAnyListeners(f.n, FALSE)>>)
            \o When(w.validator[f.n] # "none" /\ f.validate,
                    <<CallValidate(f.n)>>))

childDirty(w, f) ==
    Done([w EXCEPT !.dirtyMap[f.n] = MapSet(@, f.key, Dirty(w, f.c))], <<>>)

\* the short-circuit comparing against the other side instead
ScalarUnchangedOtherSide(w, n, key, value, isDefault) ==
    StrictEq(Get(Side(w, n, ~isDefault), key), value)

\* lines 162-165: the scalar short-circuit
ScalarUnchanged(w, n, key, value, isDefault) ==
    StrictEq(Get(Side(w, n, isDefault), key), value)

\* the dirty computation comparing against the written side instead
DirtyOfSameSide(w, n, key, value, isDefault) ==
    ~StrictEq(Get(Side(w, n, isDefault), key), value)

\* lines 177-179: does the written side now differ from the other side
DirtyOf(w, n, key, value, isDefault) ==
    ~StrictEq(Get(Side(w, n, ~isDefault), key), value)

setValue(w, f) ==
    Done(w,
         IF IsObject(f.value)
         THEN <<CallSetValueInternal(f.n, f.key, f.value, <<>>, f.validate,
                                     f.isDefault, f.notifyChild,
                                     f.notifyParent, f.fireAny)>>
         ELSE IF ScalarUnchanged(w, f.n, f.key, f.value, f.isDefault)
              THEN <<>>
              ELSE <<CallSetValueInternal(
                         f.n, f.key, f.value,
                         <<DirtyOf(w, f.n, f.key, f.value, f.isDefault)>>,
                         f.validate, f.isDefault, f.notifyChild,
                         f.notifyParent, f.fireAny)>>)

\* the value setValue returns
setValueReturns(w, n, key, value, isDefault) ==
    IsObject(value) \/ ~ScalarUnchanged(w, n, key, value, isDefault)

setValues(w, f) ==
    LET newKeys == KeysOf(Side(w, f.n, f.isDefault))
        localKeys == KeysOf(f.values)
        mostKeys == MostKeys(newKeys, localKeys)
    IN Done(Ev(w, "setValues", f.n, NoNode, f.isDefault),
            [i \in 1..Len(mostKeys) |->
                CallSetValue(f.n, mostKeys[i], Get(f.values, mostKeys[i]),
                             FALSE, f.isDefault, f.notifyChild,
                             f.notifyParent, FALSE)]
            \o When(f.notifyParent,
                    <<CallUpdateParentValues(f.n, f.isDefault)>>)
            \o <<CallFireAnyListeners(f.n, TRUE)>>
            \o When(w.validator[f.n] # "none", <<CallValidate(f.n)>>))

validate(w, f) ==
    IF w.validator[f.n] = "none" THEN Done(w, <<>>)
    ELSE Done(Ev(w, "validator", f.n, NoNode, FALSE),
              <<CallSetErrors(f.n,
                              RunValidator(w.validator[f.n], w.values[f.n]),
                              TRUE, TRUE)>>)

setError(w, f) ==
    IF StrictEq(Get(w.errorMap[f.n], f.key), f.error) THEN Done(w, <<>>)
    ELSE LET c == ChildAt(w, f.n, f.key)
         IN Done([w EXCEPT !.errorMap[f.n] =
                     IF f.error = Undef THEN Remove(@, f.key)
                     ELSE Assign(@, f.key, f.error)],
                 When(f.notifyChild /\ c # NoNode,
                      <<CallSetErrors(c, IF f.error = Undef THEN EmptyObj
                                         ELSE f.error, TRUE, TRUE)>>)
                 \o <<CallFireListeners(f.n, f.key, FALSE)>>
                 \o When(f.fireAny /\ f.notifyParent,
                         <<CallUpdateParentErrors(f.n)>>)
                 \o When(f.fireAny, <<CallFireAnyListeners(f.n, FALSE)>>))

setErrors(w, f) ==
    LET localKeys == KeysOf(w.errorMap[f.n])
        newKeys == KeysOf(f.errors)
        mostKeys == MostKeys(newKeys, localKeys)
    IN Done(Ev(w, "setErrors", f.n, NoNode, FALSE),
            [i \in 1..Len(mostKeys) |->
                CallSetError(f.n, mostKeys[i], Get(f.errors, mostKeys[i]),
                             f.notifyChild, f.notifyParent, FALSE)]
            \o When(f.notifyParent, <<CallUpdateParentErrors(f.n)>>)
            \o <<CallFireAnyListeners(f.n, FALSE)>>)

\* an upward write that copies the value but leaves the dirty flag alone
updateParentValuesNoDirty(w, f) ==
    IF ParentOf(f.n) = NoNode THEN Done(w, <<>>)
    ELSE Done(Ev(w, "upValues", f.n, NoNode, f.isDefault),
              <<CallSetValueInternal(ParentOf(f.n), NameOf(f.n),
                                     memberCopy(Side(w, f.n, f.isDefault)),
                                     <<>>, TRUE, f.isDefault,
                                     FALSE, TRUE, TRUE)>>)

\* ChildFormState.updateParentValues; a no-op on the root
updateParentValues(w, f) ==
    IF ParentOf(f.n) = NoNode THEN Done(w, <<>>)
    ELSE Done(Ev(w, "upValues", f.n, NoNode, f.isDefault),
              <<CallSetValueInternal(ParentOf(f.n), NameOf(f.n),
                                     memberCopy(Side(w, f.n, f.isDefault)),
                                     <<Dirty(w, f.n)>>, TRUE, f.isDefault,
                                     FALSE, TRUE, TRUE)>>)

\* an upward error propagation that lets the parent notify the child again
updateParentErrorsNotifyChild(w, f) ==
    IF ParentOf(f.n) = NoNode THEN Done(w, <<>>)
    ELSE Done(Ev(w, "upErrors", f.n, NoNode, FALSE),
              <<CallSetError(ParentOf(f.n), NameOf(f.n),
                             IF HasError(w, f.n)
                             THEN memberCopy(w.errorMap[f.n]) ELSE Undef,
                             TRUE, TRUE, TRUE)>>)

\* an upward error propagation that reports the error map even when the
\* child has no error
updateParentErrorsAlways(w, f) ==
    IF ParentOf(f.n) = NoNode THEN Done(w, <<>>)
    ELSE Done(Ev(w, "upErrors", f.n, NoNode, FALSE),
              <<CallSetError(ParentOf(f.n), NameOf(f.n),
                             memberCopy(w.errorMap[f.n]),
                             FALSE, TRUE, TRUE)>>)

\* ChildFormState.updateParentErrors; a no-op on the root
updateParentErrors(w, f) ==
    IF ParentOf(f.n) = NoNode THEN Done(w, <<>>)
    ELSE Done(Ev(w, "upErrors", f.n, NoNode, FALSE),
              <<CallSetError(ParentOf(f.n), NameOf(f.n),
                             IF HasError(w, f.n)
                             THEN memberCopy(w.errorMap[f.n]) ELSE Undef,
                             FALSE, TRUE, TRUE)>>)

setState(w, f) ==
    LET c == KeysOf(w.values[f.n])
        withChild == SelectSeq(c, LAMBDA e : ChildAt(w, f.n, e) # NoNode)
    IN Done(Ev([w EXCEPT !.state[f.n] = f.state], "setState", f.n, NoNode,
               f.notifyChild),
            When(f.notifyChild,
                 [i \in 1..Len(withChild) |->
                     CallSetState(ChildAt(w, f.n, withChild[i]), f.state,
                                  f.notifyChild, f.notifyParent)])
            \o [i \in 1..Len(c) |-> CallFireListeners(f.n, c[i], FALSE)]
            \o When(f.notifyParent, <<CallUpdateParentState(f.n)>>)
            \o <<CallFireAnyListeners(f.n, FALSE)>>)

\* ChildFormState.updateParentState; a no-op on the root
updateParentState(w, f) ==
    IF ParentOf(f.n) = NoNode THEN Done(w, <<>>)
    ELSE Done(Ev(w, "upState", f.n, NoNode, FALSE),
              <<CallSetState(ParentOf(f.n), memberCopy(w.state[f.n]), FALSE,
                             TRUE)>>)

\* listen(key, listener): the id is the counter before the increment
listen(w, f) ==
    Done([w EXCEPT !.listeners[f.n] =
                       MapSet(@, f.key,
                              MapSet(SettersOf(w, f.n, f.key), w.counter[f.n],
                                     f.cb)),
                   !.counter[f.n] = @ + 1],
         <<>>)

\* listenAny(listener)
listenAny(w, f) ==
    Done([w EXCEPT !.anyListeners[f.n] = MapSet(@, w.counter[f.n], f.cb),
                   !.counter[f.n] = @ + 1],
         <<>>)

\* an ignore that removes the id under every key
ignoreEveryKey(w, f) ==
    Done([w EXCEPT !.listeners[f.n] =
                       [k \in DOMAIN @ |->
                           [i \in (DOMAIN @[k]) \ {f.id} |-> @[k][i]]]],
         <<>>)

\* ignore(key, id): nothing but a warning when the key has no listener map
ignore(w, f) ==
    IF f.key \notin DOMAIN w.listeners[f.n] THEN Done(w, <<>>)
    ELSE Done([w EXCEPT !.listeners[f.n][f.key] =
                            [i \in (DOMAIN @) \ {f.id} |-> @[i]]],
              <<>>)

\* ignoreAny(id)
ignoreAny(w, f) ==
    Done([w EXCEPT !.anyListeners[f.n] =
                       [i \in (DOMAIN @) \ {f.id} |-> @[i]]],
         <<>>)

\* fireListeners(key, setValuesWasUsed): the ids are listed once, before the
\* first callback runs
fireListeners(w, f) ==
    LET l == IdsOf(SettersOf(w, f.n, f.key))
    IN Done(Ev(w, "field", f.n, f.key, f.b),
            [i \in 1..Len(l) |-> Invoke(f.n, f.key, l[i], f.b)])

\* fireAnyListeners(setValuesWasUsed)
fireAnyListeners(w, f) ==
    LET al == IdsOf(w.anyListeners[f.n])
    IN Done(Ev(w, "any", f.n, NoNode, f.b),
            [i \in 1..Len(al) |-> Invoke(f.n, NoNode, al[i], f.b)])

\* One callback of a fan-out.  The map is read again by id: calling the
\* entry of an id removed since the ids were listed calls undefined, which
\* throws a TypeError.
invoke(w, f) ==
    LET reg == RegistryOf(w, f.n, f.key)
    IN IF f.id \notin DOMAIN reg
       THEN Done(EvId(w, "TypeError", f.n, f.key, f.b, f.id), <<>>)
       ELSE Done(EvId(w, "cb", f.n, f.key, f.b, f.id),
                 IF reg[f.id].kind = "drop"
                 THEN IF f.key = NoNode
                      THEN <<CallIgnoreAny(f.n, reg[f.id].id)>>
                      ELSE <<CallIgnore(f.n, f.key, reg[f.id].id)>>
                 ELSE <<>>)

\* What the called function does itself, and the calls it makes
Step(w, f) ==
    CASE f.op = "setValueInternal" -> setValueInternal(w, f)
      [] f.op = "childDirty" -> childDirty(w, f)
      [] f.op = "setValue" -> setValue(w, f)
      [] f.op = "setValues" -> setValues(w, f)
      [] f.op = "validate" -> validate(w, f)
      [] f.op = "setError" -> setError(w, f)
      [] f.op = "setErrors" -> setErrors(w, f)
      [] f.op = "setState" -> setState(w, f)
      [] f.op = "updateParentValues" -> updateParentValues(w, f)
      [] f.op = "updateParentErrors" -> updateParentErrors(w, f)
      [] f.op = "updateParentState" -> updateParentState(w, f)
      [] f.op = "fireListeners" -> fireListeners(w, f)
      [] f.op = "fireAnyListeners" -> fireAnyListeners(w, f)
      [] f.op = "invoke" -> invoke(w, f)
      [] f.op = "listen" -> listen(w, f)
      [] f.op = "listenAny" -> listenAny(w, f)
      [] f.op = "ignore" -> ignore(w, f)
      [] f.op = "ignoreAny" -> ignoreAny(w, f)

RECURSIVE Run(_, _)
Run(w, pending) ==
    IF pending = <<>> \/ Thrown(w) THEN w
    ELSE LET r == Step(w, Head(pending)) IN Run(r.w, r.calls \o Tail(pending))

\* resetAll()
resetAll(w, n) ==
    Run(w, <<CallSetValues(n, w.defaultValues[n], FALSE, TRUE, TRUE)>>)

\* reset(key)
reset(w, n, key) ==
    Run(w, <<CallSetValue(n, key, Get(w.defaultValues[n], key), TRUE, FALSE,
                          TRUE, TRUE, TRUE)>>)

----------------------------------------------------------------------------
\* Inputs.  A form is typed: a field of a node is a composite iff a child
\* node can be bound to it, and a scalar otherwise.  A schema names the nodes
\* of a tree and, for each, the values and errors its fields take; isArr[n]
\* tells whether the value of node n is an array or an object.  Arrays are
\* written at an index up to their length, so they have no holes.

ScalarVals == {Sc(i) : i \in Scalars}

\* Error leaves are truthy strings.
ErrLeaf == Sc(1)

\* The functions g from a set D of doms with g[k] in f[k]
Maps(doms, f) ==
    UNION {{g \in [D -> UNION {f[k] : k \in D}] : \A k \in D : g[k] \in f[k]} :
           D \in doms}

NodeType(fieldVals, fieldErrs, withArrays) ==
    [fields |-> fieldVals,
     objs |-> {Obj(g) : g \in Maps(SUBSET Keys, fieldVals)},
     arrs |-> IF withArrays
              THEN {Arr(g) : g \in Maps({0..(l - 1) : l \in 0..MaxKeys}, fieldVals)}
              ELSE {},
     ferrs |-> fieldErrs,
     errs |-> {Obj(g) : g \in Maps(SUBSET Keys, fieldErrs)}]

\* A node all of whose fields are scalars
LeafType == NodeType([k \in Keys |-> ScalarVals], [k \in Keys |-> {ErrLeaf}], TRUE)
ObjLeafType == NodeType([k \in Keys |-> ScalarVals], [k \in Keys |-> {ErrLeaf}], FALSE)

\* A node whose only field, 0, holds the value of a node of type ct
ParentType(ct) ==
    NodeType([k \in Keys |-> IF k = 0 THEN ct.objs ELSE {}],
             [k \in Keys |-> IF k = 0 THEN ct.errs ELSE {}], FALSE)

LeafSchema == [nodes |-> {0}, type |-> [n \in {0} |-> LeafType]]

TreeSchema ==
    [nodes |-> {0, 1},
     type |-> [n \in {0, 1} |-> IF n = 0 THEN ParentType(ObjLeafType)
                                ELSE ObjLeafType]]

\* The chain root - node 1 - node 2
DeepSchema ==
    [nodes |-> {0, 1, 2},
     type |-> [n \in {0, 1, 2} |->
                 IF n = 0 THEN ParentType(ParentType(ObjLeafType))
                 ELSE IF n = 1 THEN ParentType(ObjLeafType)
                 ELSE ObjLeafType]]

\* A node whose only field, 0, holds a scalar
TinyType ==
    NodeType([k \in Keys |-> IF k = 0 THEN ScalarVals ELSE {}],
             [k \in Keys |-> IF k = 0 THEN {ErrLeaf} ELSE {}], FALSE)

\* A node whose field 0 holds the value of a node of type c0 and whose field
\* 1 holds the value of a node of type c1
ForkType(c0, c1) ==
    NodeType([k \in Keys |-> IF k = 0 THEN c0.objs ELSE c1.objs],
             [k \in Keys |-> IF k = 0 THEN c0.errs ELSE c1.errs], FALSE)

\* All four nodes: the chain root - node 1 - node 2 and node 3, the sibling
\* of node 1
FullSchema ==
    [nodes |-> Nodes,
     type |-> [n \in Nodes |->
                 IF n = 0 THEN ForkType(ParentType(TinyType), TinyType)
                 ELSE IF n = 1 THEN ParentType(TinyType)
                 ELSE TinyType]]

\* A single node with one scalar field
ObsSchema == [nodes |-> {0}, type |-> [n \in {0} |-> TinyType]]

\* A node whose only field, 0, holds the scalar the validator objects to
FlaggedType ==
    NodeType([k \in Keys |-> IF k = 0 THEN {Sc(2)} ELSE {}],
             [k \in Keys |-> IF k = 0 THEN {ErrLeaf} ELSE {}], FALSE)

\* A root and the child bound to its key 0, which has that one field
PairSchema ==
    [nodes |-> {0, 1},
     type |-> [n \in {0, 1} |-> IF n = 0 THEN ParentType(FlaggedType)
                                ELSE FlaggedType]]

Containers(sch, n) ==
    IF isArr[n] THEN sch.type[n].arrs ELSE sch.type[n].objs

FieldVals(sch, n, k) == sch.type[n].fields[k]

FieldErrs(sch, n, k) == sch.type[n].ferrs[k]

ErrorMaps(sch, n) == sch.type[n].errs

\* The keys a call may write: any key of an object, an index up to the length
\* of an array.
WritableKeys(n, isDefault) ==
    IF isArr[n]
    THEN {k \in Keys : k <= ArrLen(IF isDefault THEN defaultValues[n]
                                   ELSE values[n])}
    ELSE Keys

----------------------------------------------------------------------------
\* State

World ==
    [exists |-> exists, values |-> values, defaultValues |-> defaultValues,
     dirtyMap |-> dirtyMap, errorMap |-> errorMap, state |-> state,
     validator |-> validator, listeners |-> listeners,
     anyListeners |-> anyListeners, counter |-> counter, log |-> <<>>]

Holds(w) ==
    /\ exists' = w.exists
    /\ values' = w.values
    /\ defaultValues' = w.defaultValues
    /\ dirtyMap' = w.dirtyMap
    /\ errorMap' = w.errorMap
    /\ state' = w.state
    /\ validator' = w.validator
    /\ listeners' = w.listeners
    /\ anyListeners' = w.anyListeners
    /\ counter' = w.counter
    /\ log' = w.log

\* The state after a call that ran to its end
Becomes(w) == Holds(w) /\ UNCHANGED <<isArr, stack>>

Call(op, n, k, x, d, v, ret) ==
    [op |-> op, n |-> n, k |-> k, x |-> x, d |-> d, v |-> v, ret |-> ret]

\* No call has been made since the caller looked at the result of the last one.
NoCall == Call("none", 0, 0, Undef, FALSE, FALSE, FALSE)
Idle == call = NoCall

\* The caller has looked at what the last call returned and did, and goes on.
Return ==
    /\ ~Idle
    /\ call' = NoCall
    /\ log' = <<>>
    /\ UNCHANGED <<exists, values, defaultValues, dirtyMap, errorMap, state,
                   validator, isArr, listeners, anyListeners, counter, stack>>

\* new FormState(values, defaultValues, defaultState, validator) for the root
InitOn(S) ==
    /\ isArr \in [Nodes -> BOOLEAN]
    /\ \A n \in Nodes : isArr[n] => n \in S.nodes /\ S.type[n].arrs # {}
    /\ exists = [n \in Nodes |-> n = 0]
    /\ \E v0 \in Containers(S, 0), d0 \in Containers(S, 0) :
          /\ values = [n \in Nodes |-> IF n = 0 THEN memberCopy(v0) ELSE EmptyObj]
          /\ defaultValues =
                 [n \in Nodes |-> IF n = 0 THEN memberCopy(d0) ELSE EmptyObj]
    /\ dirtyMap = [n \in Nodes |-> <<>>]
    /\ errorMap = [n \in Nodes |-> EmptyObj]
    /\ state = [n \in Nodes |-> FALSE]
    /\ \E f \in Validators :
          validator = [n \in Nodes |-> IF n = 0 THEN f ELSE "none"]
    /\ listeners = [n \in Nodes |-> <<>>]
    /\ anyListeners = [n \in Nodes |-> <<>>]
    /\ counter = [n \in Nodes |-> 0]
    /\ stack = <<>>
    /\ log = <<>>
    /\ call = NoCall

\* new ChildFormState(parent, name)
NewChild(S) ==
    \E c \in S.nodes \ {0} :
      LET p == ParentOf(c)
          pv == Get(values[p], NameOf(c))
          pd == Get(defaultValues[p], NameOf(c))
      IN /\ Idle
         /\ ~exists[c]
         /\ exists[p]
         /\ exists' = [exists EXCEPT ![c] = TRUE]
         /\ values' = [values EXCEPT ![c] =
                          memberCopy(IF pv = Undef THEN EmptyObj ELSE pv)]
         /\ defaultValues' = [defaultValues EXCEPT ![c] =
                                 memberCopy(IF pd = Undef THEN EmptyObj ELSE pd)]
         /\ state' = [state EXCEPT ![c] = memberCopy(state[p])]
         /\ dirtyMap' = [dirtyMap EXCEPT ![c] = <<>>]
         /\ errorMap' = [errorMap EXCEPT ![c] = EmptyObj]
         /\ validator' = [validator EXCEPT ![c] = "none"]
         /\ listeners' = [listeners EXCEPT ![c] = <<>>]
         /\ anyListeners' = [anyListeners EXCEPT ![c] = <<>>]
         /\ counter' = [counter EXCEPT ![c] = 0]
         /\ UNCHANGED stack
         /\ log' = <<>>
         /\ call' = Call("newChild", c, NameOf(c), Undef, FALSE, FALSE, FALSE)
         /\ UNCHANGED isArr

\* node.setValue(key, value, validate, isDefault), validate being one of vs
\* and isDefault one of ds
SetValueCall(S, vs, ds) ==
    \E n \in S.nodes, d \in ds, v \in vs :
      \E k \in WritableKeys(n, d) :
        \E x \in FieldVals(S, n, k) \cup {Undef} :
          /\ Idle /\ exists[n]
          /\ Becomes(Run(World, <<CallSetValue(n, k, x, v, d, TRUE, TRUE, TRUE)>>))
          /\ call' = Call("setValue", n, k, x, d, v,
                          setValueReturns(World, n, k, x, d))

\* node.setValues(values, isDefault)
SetValuesCall(S) ==
    \E n \in S.nodes, d \in BOOLEAN :
      \E x \in Containers(S, n) :
        /\ Idle /\ exists[n]
        /\ Becomes(Run(World, <<CallSetValues(n, x, d, TRUE, TRUE)>>))
        /\ call' = Call("setValues", n, NoNode, x, d, FALSE, TRUE)

\* node.reset(key)
ResetCall(S) ==
    \E n \in S.nodes :
      \E k \in WritableKeys(n, FALSE) :
        /\ Idle /\ exists[n]
        /\ Becomes(reset(World, n, k))
        /\ call' = Call("reset", n, k, Get(defaultValues[n], k), FALSE, TRUE,
                        TRUE)

\* node.resetAll()
ResetAllCall(S) ==
    \E n \in S.nodes :
      /\ Idle /\ exists[n]
      /\ Becomes(resetAll(World, n))
      /\ call' = Call("resetAll", n, NoNode, defaultValues[n], FALSE, FALSE,
                      TRUE)

\* node.validate()
ValidateCall(S) ==
    \E n \in S.nodes :
      /\ Idle /\ exists[n]
      /\ Becomes(Run(World, <<CallValidate(n)>>))
      /\ call' = Call("validate", n, NoNode, Undef, FALSE, FALSE, TRUE)

\* node.setError(key, error)
SetErrorCall(S) ==
    \E n \in S.nodes :
      \E k \in Keys :
        \E e \in FieldErrs(S, n, k) \cup {Undef} :
          /\ Idle /\ exists[n]
          /\ Becomes(Run(World, <<CallSetError(n, k, e, TRUE, TRUE, TRUE)>>))
          /\ call' = Call("setError", n, k, e, FALSE, FALSE, TRUE)

\* node.setErrors(errors)
SetErrorsCall(S) ==
    \E n \in S.nodes :
      \E e \in ErrorMaps(S, n) :
        /\ Idle /\ exists[n]
        /\ Becomes(Run(World, <<CallSetErrors(n, e, TRUE, TRUE)>>))
        /\ call' = Call("setErrors", n, NoNode, e, FALSE, FALSE, TRUE)

\* node.setState(state)
SetStateCall(S) ==
    \E n \in S.nodes :
      \E s \in BOOLEAN :
        /\ Idle /\ exists[n]
        /\ Becomes(Run(World, <<CallSetState(n, s, TRUE, TRUE)>>))
        /\ call' = Call("setState", n, NoNode, Undef, s, FALSE, TRUE)

\* id = node.listen(key, cb)
ListenCall(S) ==
    \E n \in S.nodes, k \in Keys, cb \in Callbacks :
      /\ Idle /\ exists[n]
      /\ counter[n] < MaxIds
      /\ Becomes(Run(World, <<CallListen(n, k, cb)>>))
      /\ call' = Call("listen", n, k, Sc(counter[n]), FALSE, FALSE, TRUE)

\* id = node.listenAny(cb)
ListenAnyCall(S) ==
    \E n \in S.nodes, cb \in Callbacks :
      /\ Idle /\ exists[n]
      /\ counter[n] < MaxIds
      /\ Becomes(Run(World, <<CallListenAny(n, cb)>>))
      /\ call' = Call("listenAny", n, NoNode, Sc(counter[n]), FALSE, FALSE,
                      TRUE)

\* node.ignore(key, id), the id registered or not
IgnoreCall(S) ==
    \E n \in S.nodes, k \in Keys, id \in 0..(MaxIds - 1) :
      /\ Idle /\ exists[n]
      /\ Becomes(Run(World, <<CallIgnore(n, k, id)>>))
      /\ call' = Call("ignore", n, k, Sc(id), FALSE, FALSE, TRUE)

\* node.ignoreAny(id), the id registered or not
IgnoreAnyCall(S) ==
    \E n \in S.nodes, id \in 0..(MaxIds - 1) :
      /\ Idle /\ exists[n]
      /\ Becomes(Run(World, <<CallIgnoreAny(n, id)>>))
      /\ call' = Call("ignoreAny", n, NoNode, Sc(id), FALSE, FALSE, TRUE)

----------------------------------------------------------------------------
\* A single node without child nodes, object- or array-valued.

InitLeaf == InitOn(LeafSchema)
NextLeaf ==
    \/ SetValueCall(LeafSchema, BOOLEAN, BOOLEAN)
    \/ SetValuesCall(LeafSchema)
    \/ ResetCall(LeafSchema)
    \/ ResetAllCall(LeafSchema)
    \/ ValidateCall(LeafSchema)
    \/ SetErrorCall(LeafSchema)
    \/ SetErrorsCall(LeafSchema)
    \/ Return
SpecLeaf == InitLeaf /\ [][NextLeaf]_vars

\* A root and the child node bound to its key 0.
Init == InitOn(TreeSchema)
Next ==
    \/ NewChild(TreeSchema)
    \/ SetValueCall(TreeSchema, {TRUE}, BOOLEAN)
    \/ SetValuesCall(TreeSchema)
    \/ ResetCall(TreeSchema)
    \/ ResetAllCall(TreeSchema)
    \/ Return
Spec == Init /\ [][Next]_vars

\* A root, its child and the child of that child.
InitDeep == InitOn(DeepSchema)
NextDeep ==
    \/ NewChild(DeepSchema)
    \/ SetValueCall(DeepSchema, {TRUE}, {FALSE})
    \/ ResetCall(DeepSchema)
    \/ ResetAllCall(DeepSchema)
    \/ Return
SpecDeep == InitDeep /\ [][NextDeep]_vars

\* The whole tree under setState; the form is constructed with its values as
\* default values.
InitState == InitOn(FullSchema) /\ defaultValues = values
NextState ==
    \/ NewChild(FullSchema)
    \/ SetStateCall(FullSchema)
    \/ Return
SpecState == InitState /\ [][NextState]_vars

\* The public calls with default flags on node n, by name
PublicCalls(S, n) ==
    {<<"setValue", CallSetValue(n, k, x, TRUE, FALSE, TRUE, TRUE, TRUE)>> :
        k \in Keys, x \in UNION {FieldVals(S, n, j) : j \in Keys} \cup {Undef}}
    \cup {<<"setValues", CallSetValues(n, x, FALSE, TRUE, TRUE)>> :
             x \in Containers(S, n)}
    \cup {<<"reset", CallSetValue(n, k, Get(defaultValues[n], k), TRUE, FALSE,
                                  TRUE, TRUE, TRUE)>> : k \in Keys}
    \cup {<<"resetAll", CallSetValues(n, defaultValues[n], FALSE, TRUE, TRUE)>>}
    \cup {<<"validate", CallValidate(n)>>}
    \cup {<<"setError", CallSetError(n, k, e, TRUE, TRUE, TRUE)>> :
             k \in Keys, e \in UNION {FieldErrs(S, n, j) : j \in Keys} \cup {Undef}}
    \cup {<<"setErrors", CallSetErrors(n, e, TRUE, TRUE)>> :
             e \in ErrorMaps(S, n)}
    \cup {<<"setState", CallSetState(n, st, TRUE, TRUE)>> : st \in BOOLEAN}

\* A public call begins: it is the one pending call.
BeginCall(S) ==
    \E n \in S.nodes :
      \E c \in PublicCalls(S, n) :
        /\ Idle /\ exists[n]
        /\ c[2].op \in {"setValue", "setError"} =>
               c[2].key \in {k \in Keys : FieldVals(S, n, k) # {}}
        /\ stack' = <<c[2]>>
        /\ call' = Call(c[1], n, NoNode, Undef, FALSE, FALSE, FALSE)
        /\ log' = <<>>
        /\ UNCHANGED <<exists, values, defaultValues, dirtyMap, errorMap,
                       state, validator, isArr, listeners, anyListeners,
                       counter>>

\* The first pending call is made: the called function does what it does
\* itself, and the calls it makes are pending before the rest.
StepCall ==
    /\ stack # <<>>
    /\ Len(stack) <= MaxStack
    /\ Holds(Step(World, Head(stack)).w)
    /\ stack' = Step(World, Head(stack)).calls \o Tail(stack)
    /\ UNCHANGED <<isArr, call>>

\* The call returns when nothing is pending.
ReturnStep == stack = <<>> /\ Return

\* node.validator = f
SetValidator(S) ==
    \E n \in S.nodes, f \in Validators :
      /\ Idle /\ exists[n]
      /\ validator[n] # f
      /\ validator' = [validator EXCEPT ![n] = f]
      /\ UNCHANGED <<exists, values, defaultValues, dirtyMap, errorMap, state,
                     isArr, log, call, listeners, anyListeners, counter,
                     stack>>

\* A root constructed empty and its child, with every call made one nested
\* call at a time.  The code is synchronous: a call that has begun keeps
\* running, which is the fairness condition on StepCall.
InitSteps ==
    /\ InitOn(PairSchema)
    /\ values[0] = EmptyObj
    /\ defaultValues = values
NextSteps ==
    \/ NewChild(PairSchema)
    \/ SetValidator(PairSchema)
    \/ BeginCall(PairSchema)
    \/ StepCall
    \/ ReturnStep
SpecSteps == InitSteps /\ [][NextSteps]_vars /\ WF_vars(StepCall)

\* A single node and its observers; the form is constructed with its values
\* as default values.
InitObs == InitOn(ObsSchema) /\ defaultValues = values
NextObs ==
    \/ ListenCall(ObsSchema)
    \/ ListenAnyCall(ObsSchema)
    \/ IgnoreCall(ObsSchema)
    \/ IgnoreAnyCall(ObsSchema)
    \/ SetValueCall(ObsSchema, {TRUE}, {FALSE})
    \/ Return
SpecObs == InitObs /\ [][NextObs]_vars

\* The chain under the error operations; the form is constructed with its
\* values as default values.
InitErr == InitOn(DeepSchema) /\ defaultValues = values
NextErr ==
    \/ NewChild(DeepSchema)
    \/ SetErrorCall(DeepSchema)
    \/ SetErrorsCall(DeepSchema)
    \/ ValidateCall(DeepSchema)
    \/ Return
SpecErr == InitErr /\ [][NextErr]_vars

----------------------------------------------------------------------------
\* Properties

\* How many times the current call did e on node n (for key k)
Count(e, n, k) ==
    Cardinality({i \in 1..Len(log) :
                    log[i].e = e /\ log[i].n = n /\ log[i].k = k})

\* The nodes from n up to the root
RECURSIVE PathUp(_)
PathUp(n) == IF n = NoNode THEN {} ELSE {n} \cup PathUp(ParentOf(n))

\* What node a holds at the place of its descendant n
RECURSIVE Mirror(_, _)
Mirror(a, n) ==
    IF a = n THEN values[n] ELSE Get(Mirror(a, ParentOf(n)), NameOf(n))

IsDirty(n) == \E k \in DOMAIN dirtyMap[n] : dirtyMap[n][k]

\* A child's setValue with default flags wrote a changed scalar.
ChildWroteScalar ==
    /\ call.op = "setValue"
    /\ call.n # 0
    /\ ~call.d /\ call.v
    /\ call.x.t = "s"
    /\ call.ret

\* C1: upward sync.  After child.setValue(k, v) with default flags and a
\* changed scalar v, every ancestor holds v at the child's place under k, and
\* on every level of the path the parent's dirty flag of the bound field is
\* the dirty flag of the node bound to it.
UpwardSync ==
    ChildWroteScalar =>
        /\ \A a \in PathUp(call.n) : Get(Mirror(a, call.n), call.k) = call.x
        /\ \A m \in PathUp(call.n) \ {0} :
              /\ NameOf(m) \in DOMAIN dirtyMap[ParentOf(m)]
              /\ dirtyMap[ParentOf(m)][NameOf(m)] = IsDirty(m)

UpwardSyncWitness ==
    /\ ChildWroteScalar
    /\ ParentOf(call.n) # 0
    /\ IsDirty(call.n)
    /\ validator[0] = "noTwo"
    /\ Get(Mirror(0, call.n), call.k) = Sc(2)

\* C2: no propagation loop.  One child.setValue(k, v) with default flags and
\* a changed scalar v fires the parent's field observers of the bound field
\* exactly once and does not call the child's own setValues, whatever
\* validator the parent has.
NoPropagationLoop ==
    ChildWroteScalar =>
        /\ Count("field", ParentOf(call.n), NameOf(call.n)) = 1
        /\ Count("setValues", call.n, NoNode) = 0

\* The values a child mirrors: an absent field counts as the empty composite
\* the child is constructed with.
SameValue(field, own) == field = own \/ (field = Undef /\ own = EmptyObj)

\* C3: whenever no call is in progress, a child's values and defaultValues
\* equal the parent's at the bound field.
ChildInSync ==
    \A c \in Nodes \ {0} :
        exists[c] =>
            /\ SameValue(Get(values[ParentOf(c)], NameOf(c)), values[c])
            /\ SameValue(Get(defaultValues[ParentOf(c)], NameOf(c)),
                         defaultValues[c])

HasChildren(n) == \E c \in Nodes : exists[c] /\ ParentOf(c) = n

\* C4: after setValues(V) on a node without child nodes, the written side
\* is V.
BulkReplaceOverwrites ==
    (call.op = "setValues" /\ ~HasChildren(call.n)) =>
        (IF call.d THEN defaultValues[call.n] ELSE values[call.n]).m = call.x.m

\* C5: after resetAll() on a node without child nodes, values equals
\* defaultValues and the node is not dirty.
ResetAllRestores ==
    (call.op = "resetAll" /\ ~HasChildren(call.n)) =>
        /\ values[call.n] = defaultValues[call.n]
        /\ ~IsDirty(call.n)

\* C6: after a setValue that requested validation on a node with a validator
\* and without child nodes, errorMap is what the validator reports for the
\* values of the node.
ErrorMapIsValidation ==
    (/\ call.op = "setValue" /\ call.v /\ call.ret
     /\ validator[call.n] # "none" /\ ~HasChildren(call.n)) =>
        errorMap[call.n] = RunValidator(validator[call.n], values[call.n])

\* C7: after setErrors(E) on a node without child nodes, errorMap is E and
\* error is true iff E has an entry.
ErrorRoundTrip ==
    (call.op = "setErrors" /\ ~HasChildren(call.n)) =>
        /\ errorMap[call.n] = call.x
        /\ (DOMAIN errorMap[call.n].m # {}) = (DOMAIN call.x.m # {})

\* dirtyMap[key] read as a boolean
DirtyAt(n, k) == k \in DOMAIN dirtyMap[n] /\ dirtyMap[n][k]

\* C8: after setValue(key, v) of a scalar v on the values side of a field
\* without a child, dirtyMap[key] tells whether v differs from
\* defaultValues[key].
SetValueDirtyCorrect ==
    (/\ call.op = "setValue" /\ ~call.d /\ call.x.t = "s"
     /\ ~HasChildren(call.n)) =>
        DirtyAt(call.n, call.k) = (call.x # Get(defaultValues[call.n], call.k))

\* The field holds no composite on either side.
ScalarField(n, k) ==
    ~IsObject(Get(values[n], k)) /\ ~IsObject(Get(defaultValues[n], k))

\* C9: after reset(key) of a scalar field, values[key] equals
\* defaultValues[key] and dirtyMap[key] is not set.
ResetDirtyCorrect ==
    (call.op = "reset" /\ ScalarField(call.n, call.k)) =>
        /\ Get(values[call.n], call.k) = Get(defaultValues[call.n], call.k)
        /\ ~DirtyAt(call.n, call.k)

\* C9 as amended: the same for the fields of an object-valued node.
ResetDirtyCorrectObject ==
    (call.op = "reset" /\ ScalarField(call.n, call.k) /\ ~isArr[call.n]) =>
        /\ Get(values[call.n], call.k) = Get(defaultValues[call.n], call.k)
        /\ ~DirtyAt(call.n, call.k)

ResetDirtyCorrectObjectWitness ==
    /\ call.op = "reset" /\ call.ret /\ ~isArr[call.n]
    /\ Get(values[call.n], call.k) = Sc(2)
    /\ call.k \in DOMAIN dirtyMap[call.n]

\* C10: a setValue of a scalar (or of undefined) equal to what the written
\* side holds returns false, fires nothing, validates nothing and changes no
\* node.
NoOpIdempotence ==
    [][(/\ call'.op = "setValue"
        /\ ~IsObject(call'.x)
        /\ Get(IF call'.d THEN defaultValues[call'.n] ELSE values[call'.n],
               call'.k) = call'.x)
       => (/\ ~call'.ret
           /\ log' = <<>>
           /\ UNCHANGED <<values, defaultValues, dirtyMap, errorMap, state,
                          exists, validator>>)]_vars

NoOpIdempotenceWitness ==
    /\ call.op = "setValue" /\ ~call.ret
    /\ call.n # 0
    /\ call.x.t = "s"
    /\ validator[0] = "noTwo"

\* Arrays never get holes.
NoHoles ==
    \A n \in Nodes : Dense(values[n]) /\ Dense(defaultValues[n])

----------------------------------------------------------------------------
\* Observer invocations

\* How many times the record l of a call has e on node n (for key k) with
\* the flag b
CountIn(l, e, n, k, b) ==
    Cardinality({i \in 1..Len(l) :
                    /\ l[i].e = e /\ l[i].n = n /\ l[i].k = k /\ l[i].b = b})

\* Every key of the bulk value V holds a scalar that differs from what the
\* written side of node n holds.
EveryKeyChanges(n, V, isDefault) ==
    /\ DOMAIN V.m # {}
    /\ \A k \in DOMAIN V.m :
          V.m[k].t = "s" /\ Get(Side(World, n, isDefault), k) # V.m[k]

\* C11: bulk replace notifies once.  During one setValues(V) in which every
\* key of V changes a scalar value, the any-observers of the node are
\* invoked exactly once, with the flag true, and the field observers of
\* every key of V exactly once, with or without a validator on the node.
BulkReplaceNotifiesOnce ==
    [][(call'.op = "setValues" /\ EveryKeyChanges(call'.n, call'.x, call'.d))
       => (/\ CountIn(log', "any", call'.n, NoNode, TRUE) = 1
           /\ CountIn(log', "any", call'.n, NoNode, FALSE) = 0
           /\ \A k \in DOMAIN call'.x.m :
                 CountIn(log', "field", call'.n, k, TRUE)
                 + CountIn(log', "field", call'.n, k, FALSE) = 1)]_vars

\* C17: every observer invoked because of a setValues or setErrors call
\* receives the flag true, every observer invoked because of a setValue or
\* setError call the flag false.
BulkFlag ==
    call.op \in {"setValues", "setErrors", "setValue", "setError"} =>
        \A i \in 1..Len(log) :
            log[i].e \in {"field", "any"} =>
                log[i].b = (call.op \in {"setValues", "setErrors"})

----------------------------------------------------------------------------
\* Shared state

\* C12: state fan-out.  After root.setState(s) with default flags every child
\* node of the tree, at any depth and also one created for a key that its
\* parent's values do not hold, has the state s.
StateFanOut ==
    (call.op = "setState" /\ call.n = 0) =>
        \A c \in Nodes : exists[c] => state[c] = call.d

\* C13: shared-state consistency.  Whenever no call is in progress, all nodes
\* of the tree hold the same state, whichever nodes setState was called on.
SharedStateConsistent ==
    \A a \in Nodes, b \in Nodes : (exists[a] /\ exists[b]) => state[a] = state[b]

----------------------------------------------------------------------------
\* Errors in the tree

\* C15: setError seeds the child and stores the error.  After
\* parent.setError(key, e) with default flags on a parent that has a child at
\* key, with e a composite error map, parent.errorMap[key] and the child's
\* errorMap both equal e; with e absent, parent.errorMap[key] is absent and
\* the child's errorMap is empty.
SetErrorSeedsChild ==
    (call.op = "setError" /\ ChildAt(World, call.n, call.k) # NoNode) =>
        /\ Get(errorMap[call.n], call.k) = call.x
        /\ errorMap[ChildAt(World, call.n, call.k)] =
               (IF call.x = Undef THEN EmptyObj ELSE call.x)

\* The parent's error entry of the field node c is bound to is present iff c
\* has an error, and then it is the error map of c.
ErrSync(c) ==
    /\ (Get(errorMap[ParentOf(c)], NameOf(c)) # Undef)
           = (DOMAIN errorMap[c].m # {})
    /\ Get(errorMap[ParentOf(c)], NameOf(c)) # Undef
           => Get(errorMap[ParentOf(c)], NameOf(c)) = errorMap[c]

\* C19: error synchronisation.  For a parent and its only child c, which has
\* no child nodes itself and was created while the parent had no error for
\* its field: the creation of c and every setError, setErrors and validate
\* call on either node leaves the parent's entry present iff c has an error,
\* and equal to the error map of c.
ErrorSync ==
    [][\A c \in Nodes \ {0} :
          (/\ exists'[c]
           /\ ~HasChildren(c)'
           /\ IF exists[c] THEN ErrSync(c)
              ELSE Get(errorMap[ParentOf(c)], NameOf(c)) = Undef)
          => ErrSync(c)']_vars

ErrorSyncWitness ==
    /\ call.op \in {"setError", "setErrors"}
    /\ call.n = 1
    /\ exists[2]
    /\ DOMAIN errorMap[2].m = {1}
    /\ validator[0] = "noTwo"
    /\ ErrSync(2)

\* C16: setErrors batching.  During one setErrors(E) with default flags on a
\* node that has a parent, the node propagates its errors upward exactly once
\* and invokes its any-observers exactly once, also when keys of E have child
\* nodes of their own.
SetErrorsBatches ==
    (call.op = "setErrors" /\ call.n # 0) =>
        /\ Count("upErrors", call.n, NoNode) = 1
        /\ Count("any", call.n, NoNode) = 1

----------------------------------------------------------------------------
\* The observer registry

\* this.listeners[key] of node n
Setters(n, k) == SettersOf(World, n, k)

\* The ids node n has handed out: the counter starts at 0 and every listen
\* and listenAny returns it and adds one.
IssuedIds(n) == 0..(counter[n] - 1)

\* The ids node n has subscriptions under
RegisteredIds(n) ==
    (DOMAIN anyListeners[n]) \cup UNION {DOMAIN Setters(n, k) : k \in Keys}

\* f without its entry for id
Without(f, id) == [i \in (DOMAIN f) \ {id} |-> f[i]]

\* The ids of the callbacks the call invoked from the registry of key k
\* (NoNode: the any-registry) of node n
Invoked(n, k) ==
    {log[i].id : i \in {j \in 1..Len(log) :
                           log[j].e = "cb" /\ log[j].n = n /\ log[j].k = k}}

NoTypeError == \A i \in 1..Len(log) : log[i].e # "TypeError"

\* C18: observer registry.  An id returned by listen or listenAny was never
\* returned before on the node; ignore(key, id) and ignoreAny(id) remove the
\* subscription under that id from that registry and change nothing else,
\* nothing at all when the id is not registered there; a mutation invokes no
\* callback that was removed before it, and invokes every callback of the
\* written key and of the any-registry that stays subscribed.
ObserverRegistry ==
    [][\A n \in Nodes :
         call'.n = n =>
           /\ call'.op \in {"listen", "listenAny"} =>
                 /\ call'.x.v \notin IssuedIds(n)
                 /\ call'.x.v \in RegisteredIds(n)'
                 /\ RegisteredIds(n)' \subseteq IssuedIds(n)'
           /\ call'.op = "ignore" =>
                 /\ \A k \in Keys :
                       Setters(n, k)' =
                           IF k = call'.k
                           THEN Without(Setters(n, k), call'.x.v)
                           ELSE Setters(n, k)
                 /\ UNCHANGED <<anyListeners, counter, values, defaultValues,
                                dirtyMap, errorMap, state, validator, exists>>
           /\ call'.op = "ignoreAny" =>
                 /\ anyListeners'[n] = Without(anyListeners[n], call'.x.v)
                 /\ \A k \in Keys : Setters(n, k)' = Setters(n, k)
                 /\ UNCHANGED <<counter, values, defaultValues, dirtyMap,
                                errorMap, state, validator, exists>>
           /\ call'.op = "setValue" =>
                 /\ \A k \in Keys :
                       Invoked(n, k)' \subseteq DOMAIN Setters(n, k)
                 /\ Invoked(n, NoNode)' \subseteq DOMAIN anyListeners[n]
                 /\ (call'.ret /\ NoTypeError') =>
                       /\ \A k \in Keys :
                             call'.k = k =>
                                (DOMAIN Setters(n, k)) \cap (DOMAIN Setters(n, k)')
                                    \subseteq Invoked(n, k)'
                       /\ (DOMAIN anyListeners[n]) \cap (DOMAIN anyListeners'[n])
                              \subseteq Invoked(n, NoNode)']_vars

\* A subscription was removed, and a later write invoked the one that stayed.
ObserverRegistryWitness ==
    /\ call.op = "setValue" /\ call.ret
    /\ counter[call.n] = 2
    /\ DOMAIN Setters(call.n, call.k) = {1}
    /\ Setters(call.n, call.k)[1].kind = "note"
    /\ DOMAIN anyListeners[call.n] = {}
    /\ Invoked(call.n, call.k) = {1}

\* C20: unsubscribe during a fan-out.  When a callback, while it is invoked,
\* removes a subscription of the same registry that the fan-out has not
\* reached yet, the call still returns normally: no invocation throws.
UnsubscribeDuringFanOut == NoTypeError

----------------------------------------------------------------------------
\* Termination

\* C14: termination of propagation.  Every public call on any node of the
\* tree, with validators on any of the nodes, has made all its nested calls
\* after finitely many of them.
Termination == (stack # <<>>) ~> (stack = <<>>)

\* A setValue on a child has gone up to the root, whose validation came down
\* again, and the child is about to report its errors upward.
TerminationWitness ==
    /\ stack # <<>>
    /\ Head(stack).op = "updateParentErrors"
    /\ Head(stack).n = 1
    /\ call.op = "setValue" /\ call.n = 1
    /\ validator[0] = "noTwo"
    /\ Len(stack) > 3

====
